---- MODULE Spec2Model ----
(***************************************************************************)
(* Model of CustomMarketMaker (src/custom_mm_strategy.py): the tick        *)
(* handler on_tick, the indicator / skew / spread calculators and the      *)
(* fire-and-forget refresh task _refresh_orders.                           *)
(*                                                                         *)
(* Number representation.  Every Decimal the code quantizes to 0.0001      *)
(* (volatility, skew, spreads) is an integer count of 1e-4.  Prices put    *)
(* in the window and mid prices are integer dollars; order prices are      *)
(* integer cents (quantize(Decimal("0.01"))).  Base-asset balances are in  *)
(* 1e-3 BTC, quote balances in dollars.  Products that do not fit TLC's    *)
(* 32-bit integers are carried as two limbs <<hi, lo>> = hi*Limb + lo, so  *)
(* the Decimal arithmetic stays exact, as it is in the code (28 digits).   *)
(***************************************************************************)
EXTENDS Integers, Sequences, FiniteSets, TLC

VARIABLES
    now,            \* self.current_timestamp at the latest tick
    last_refresh,   \* self.last_refresh
    price_data,     \* self.price_data
    active_orders,  \* self.active_orders, as a set of records keyed by id
    tasks,          \* the _refresh_orders tasks made by asyncio.create_task
    running,        \* index of the task executing synchronously, 0 if none
    next_id,        \* next order id the connector hands out
    last_tick,      \* what the latest on_tick call did (observation)
    escaped,        \* an exception left on_tick or a refresh task
    calc            \* arguments and result of a calculator evaluated on its own

vars == <<now, last_refresh, price_data, active_orders, tasks, running,
          next_id, last_tick, escaped, calc>>

(* ------------------------- configuration ------------------------------ *)

\* order_amount = Decimal("0.01") BTC, in 1e-3 BTC
order_amount == 10
\* base_spread = Decimal("0.0005"), in 1e-4
base_spread == 5
\* min_spread = Decimal("0.0001"), in 1e-4
min_spread == 1
\* max_spread = Decimal("0.01"), in 1e-4
max_spread == 100
order_refresh_time == 150
bb_length == 20
fast_ma == 10
slow_ma == 50
\* target_base_pct = Decimal("0.5"), in tenths
target_base_pct == 5
\* max_skew = Decimal("0.5"), in tenths
max_skew == 5
\* the window capacity: range(100) in _init_price_data, > 100 in on_tick
WindowCap == 100
\* base = 80000 in _init_price_data
SeedBase == 80000
\* the fallback of _calc_volatility, Decimal("0.005"), in 1e-4
VolFallback == 50

(* ----------------------------- bounds --------------------------------- *)

\* timestamp of the construction; the first tick comes later than that
StartTime == 1000
\* ticks are modelled up to this timestamp
MaxTime == 1300

\* seconds between two modelled ticks
TickSteps == {75, 150}
\* noise of the seed, random.uniform(-0.002, 0.002), in 1e-4
SeedNoise == {-10, 10}

(* --------------------- exact decimal arithmetic ----------------------- *)

\* Two-limb naturals: <<hi, lo>> stands for hi * Limb + lo, 0 <= lo < Limb.
Limb == 10 ^ 5

\* a * b as a two-limb number, for 0 <= a and 0 <= b <= 20000
BigMul(a, b) ==
    LET a1 == a \div Limb
        a0 == a % Limb
        l  == a0 * b
    IN  <<a1 * b + (l \div Limb), l % Limb>>

BigLess(x, y) == x[1] < y[1] \/ (x[1] = y[1] /\ x[2] < y[2])

\* Python's max(x, y) and min(x, y) on Decimals: the first argument is
\* returned unless the second is strictly greater (smaller).
BigMax(x, y) == IF BigLess(x, y) THEN y ELSE x
BigMin(x, y) == IF BigLess(y, x) THEN y ELSE x

\* q + (rem / d) rounded to an integer, ROUND_HALF_EVEN (the default
\* rounding of Decimal.quantize), for 0 <= rem < d
RoundHalfEven(q, rem, d) ==
    IF 2 * rem > d THEN q + 1
    ELSE IF 2 * rem < d THEN q
    ELSE IF q % 2 = 0 THEN q ELSE q + 1

\* <<floor(r * 10^k / d), (r * 10^k) mod d>> by long division, 0 <= r < d
RECURSIVE LongDiv(_, _, _)
LongDiv(r, d, k) ==
    IF k = 0 THEN <<0, r>>
    ELSE LET p == LongDiv(r, d, k - 1)
         IN  <<p[1] * 10 + ((p[2] * 10) \div d), (p[2] * 10) % d>>

\* s[lo] + ... + s[hi], each sample taken relative to ref
RECURSIVE SumRange(_, _, _, _)
SumRange(s, lo, hi, ref) ==
    IF lo > hi THEN 0 ELSE (s[lo] - ref) + SumRange(s, lo + 1, hi, ref)

\* the sum of s[-n:], less n * ref, for a list of at least n samples
SumLast(s, n, ref) == SumRange(s, Len(s) - n + 1, Len(s), ref)

(* --------------------------- PriceWindow ------------------------------ *)

\* one seeded sample: float(base * (1 + noise + drift)), drift = 0.0001*(i-50)
\* (i counts from 0; noise in 1e-4)
SeedSample(i, noise) == (SeedBase * (10000 + noise + (i - 50))) \div 10000

\* Faulty variant of InitPriceData: only slow_ma - 1 samples are seeded.
InitPriceDataShort(nEven, nOdd) ==
    [k \in 1..(slow_ma - 1) |->
        SeedSample(k - 1, IF (k - 1) % 2 = 0 THEN nEven ELSE nOdd)]

\* _init_price_data: 100 samples; the noise of a sample is drawn
\* independently, here one value for the even and one for the odd samples
InitPriceData(nEven, nOdd) ==
    [k \in 1..WindowCap |->
        SeedSample(k - 1, IF (k - 1) % 2 = 0 THEN nEven ELSE nOdd)]

\* Faulty variant of Push: the eviction of lines 90-91 is left out.
PushNoEvict(window, price) == Append(window, price)

\* on_tick lines 88-91: append, then pop(0) when longer than 100
Push(window, price) ==
    LET w == Append(window, price)
    IN  IF Len(w) > WindowCap THEN Tail(w) ELSE w

(* -------------------------- IndicatorEngine --------------------------- *)

\* Faulty variant of _calc_volatility: the length test of lines 121-122 is
\* left out.
VolatilityNoFallback(window, bandwidth) == bandwidth

\* _calc_volatility.  The fallback below bb_length samples is exact.  With
\* enough samples the code computes 4*stdev/mean in binary floating point
\* (pandas) and quantizes it to 4 places: that value is an input here
\* (bandwidth, in 1e-4, >= 0), chosen by the caller among the values the
\* float computation can give.
_calc_volatility(window, bandwidth) ==
    IF Len(window) < bb_length THEN VolFallback ELSE bandwidth

\* Faulty variant of _calc_trend: the two margins are exchanged (0.998 in
\* the test for up, 1.002 in the test for down).
TrendMarginsExchanged(window) ==
    IF Len(window) < slow_ma THEN 0
    ELSE LET df  == SumLast(window, fast_ma, SeedBase)
             ds  == SumLast(window, slow_ma, SeedBase)
             lhs == 1000 * slow_ma * df
             rs  == fast_ma * ds
         IN  IF lhs > 998 * rs - 2 * fast_ma * slow_ma * SeedBase THEN 1
             ELSE IF lhs < 1002 * rs + 2 * fast_ma * slow_ma * SeedBase THEN -1
             ELSE 0

\* Faulty variant of _calc_trend: the comparisons of lines 151 and 153 are
\* not strict (>= and <=).
TrendMarginsInclusive(window) ==
    IF Len(window) < slow_ma THEN 0
    ELSE LET df  == SumLast(window, fast_ma, SeedBase)
             ds  == SumLast(window, slow_ma, SeedBase)
             lhs == 1000 * slow_ma * df
             rs  == fast_ma * ds
         IN  IF lhs >= 1002 * rs + 2 * fast_ma * slow_ma * SeedBase THEN 1
             ELSE IF lhs <= 998 * rs - 2 * fast_ma * slow_ma * SeedBase THEN -1
             ELSE 0

\* _calc_trend: 1 up, -1 down, 0 neutral.  The samples are whole dollars;
\* for such samples the binary comparison of line 151 decides as the exact
\* one does (two distinct values of the ratio of the means differ by more
\* than 1e-10, the rounding of 1.002 and of the product by less than
\* 1e-15, and at equality the rounded product is not below the fast mean).
\* mean(fast) > mean(slow) * 1.002
\* is decided on the exact sums Sf = fast_ma*SeedBase + df and
\* Ss = slow_ma*SeedBase + ds: Sf/fast_ma > (Ss/slow_ma) * 1002/1000 iff
\* 1000*slow_ma*df > 1002*fast_ma*ds + 2*fast_ma*slow_ma*SeedBase (the sums
\* are taken relative to SeedBase to stay within 32 bits); likewise 0.998.
_calc_trend(window) ==
    IF Len(window) < slow_ma THEN 0
    ELSE LET df  == SumLast(window, fast_ma, SeedBase)
             ds  == SumLast(window, slow_ma, SeedBase)
             lhs == 1000 * slow_ma * df
             rs  == fast_ma * ds
         IN  IF lhs > 1002 * rs + 2 * fast_ma * slow_ma * SeedBase THEN 1
             ELSE IF lhs < 998 * rs - 2 * fast_ma * slow_ma * SeedBase THEN -1
             ELSE 0

(* --------------------------- InventoryModel --------------------------- *)

\* Faulty variant of SkewOf: the share of the quote asset is measured
\* instead of the share of the base asset (the sign of the skew flips).
SkewOfQuoteShare(base_bal, quote_bal, mid_price) ==
    LET bv    == base_bal * mid_price
        qv    == quote_bal * 1000
        total == bv + qv
        n     == 10 * qv - target_base_pct * total
        d     == max_skew * total
        an    == IF n < 0 THEN 0 - n ELSE n
        qr    == LongDiv(an, d, 4)
        mag   == RoundHalfEven(qr[1], qr[2], d)
    IN  IF total = 0 THEN 0
        ELSE IF n >= d THEN 10000
        ELSE IF n <= 0 - d THEN -10000
        ELSE IF n < 0 THEN 0 - mag ELSE mag

\* _calc_inventory_skew, lines 167-178, on the values its three queries
\* returned: base_bal (1e-3 BTC), quote_bal (dollars), mid_price (dollars).
\* Values are in 1e-3 dollars.  raw_skew = (bv/total - target)/max_skew
\* = n/d with n = 10*bv - target_base_pct*total and d = max_skew*total; it
\* is capped to [-1, 1] and quantized to 4 places (result in 1e-4).
SkewOf(base_bal, quote_bal, mid_price) ==
    LET bv    == base_bal * mid_price
        total == bv + quote_bal * 1000
        n     == 10 * bv - target_base_pct * total
        d     == max_skew * total
        an    == IF n < 0 THEN 0 - n ELSE n
        qr    == LongDiv(an, d, 4)
        mag   == RoundHalfEven(qr[1], qr[2], d)
    IN  IF total = 0 THEN 0
        ELSE IF n >= d THEN 10000
        ELSE IF n <= 0 - d THEN -10000
        ELSE IF n < 0 THEN 0 - mag ELSE mag

(* -------------------------- SpreadCalculator -------------------------- *)

\* Faulty variant of BidTrendFactor: the factors of the up and the down
\* trend are exchanged.
BidTrendFactorExchanged(trend) == IF trend > 0 THEN 12 ELSE IF trend < 0 THEN 8 ELSE 10

\* the trend multipliers, in tenths: Decimal("0.8"), none, Decimal("1.2")
BidTrendFactor(trend) == IF trend > 0 THEN 8 ELSE IF trend < 0 THEN 12 ELSE 10
AskTrendFactor(trend) == IF trend > 0 THEN 12 ELSE IF trend < 0 THEN 8 ELSE 10

\* Faulty variant of ClampQuantize: the floor max(spread, min_spread) of
\* lines 194 and 213 is left out.
ClampQuantizeNoFloor(spread) ==
    LET c == BigMin(spread, <<max_spread * 10000, 0>>)
    IN  RoundHalfEven(c[1] \div 10000, (c[1] % 10000) * Limb + c[2], 10000 * Limb)

\* max(spread, min_spread), min(spread, max_spread), quantize(0.0001) of a
\* spread held in 1e-13 as two limbs (1e-4 is 10000 * Limb of those)
ClampQuantize(spread) ==
    LET lo == BigMax(spread, <<min_spread * 10000, 0>>)
        c  == BigMin(lo, <<max_spread * 10000, 0>>)
    IN  RoundHalfEven(c[1] \div 10000, (c[1] % 10000) * Limb + c[2], 10000 * Limb)

\* _calc_bid_spread: base_spread * (1 + vol) * trend factor * (1 + skew)
_calc_bid_spread(volatility, trend, inventory_skew) ==
    ClampQuantize(BigMul(base_spread * (10000 + volatility) * BidTrendFactor(trend),
                         10000 + inventory_skew))

\* _calc_ask_spread: base_spread * (1 + vol) * trend factor * (1 - skew)
_calc_ask_spread(volatility, trend, inventory_skew) ==
    ClampQuantize(BigMul(base_spread * (10000 + volatility) * AskTrendFactor(trend),
                         10000 - inventory_skew))

(* ---------------------------- QuoteRefresher -------------------------- *)

\* Faulty variant of BalanceSufficient: the quote-side test of lines
\* 231-233 is left out.
BalanceSufficientBaseOnly(base_avail, quote_avail, mid_price) ==
    base_avail >= order_amount

\* _check_balance lines 228-235 on the values its three queries returned
\* (base in 1e-3 BTC, quote and mid price in dollars); order_amount *
\* mid_price is in 1e-3 dollars
BalanceSufficient(base_avail, quote_avail, mid_price) ==
    IF base_avail < order_amount THEN FALSE
    ELSE IF quote_avail * 1000 < order_amount * mid_price THEN FALSE
    ELSE TRUE

\* (mid_price * (1 -/+ spread)).quantize(Decimal("0.01")), in cents.  The
\* mid price is a count of 1/scale dollars (scale 1, 10, 100 or 1000; the
\* ticks above use whole dollars, scale 1); factor is 10000 -/+ spread, so
\* the product is in 1/(10000 * scale) dollars, held as two limbs, and a
\* cent is d = 100 * scale of those, a divisor of Limb.
QuotePrice(mid_price, scale, factor) ==
    LET p == BigMul(mid_price, factor)
        d == 100 * scale
    IN  RoundHalfEven(p[1] * (Limb \div d) + (p[2] \div d), p[2] % d, d)

\* Faulty variant of BidPrice: the bid spread is added to the mid price.
BidPriceSpreadAdded(mid_price, scale, bid_spread) ==
    QuotePrice(mid_price, scale, 10000 + bid_spread)

\* lines 242 and 243
BidPrice(mid_price, scale, bid_spread) == QuotePrice(mid_price, scale, 10000 - bid_spread)
AskPrice(mid_price, scale, ask_spread) == QuotePrice(mid_price, scale, 10000 + ask_spread)

(* ------------------------ the connector's answers --------------------- *)

\* What one collaborator call gives back: a value, None, or an exception.
Ok(v)   == [k |-> "ok", v |-> v]
NoneRet == [k |-> "none", v |-> 0]
Raises  == [k |-> "raise", v |-> 0]

\* The answers of the connector to the queries of one on_tick call, in the
\* order the code makes them: ready (line 77), get_mid_price (83),
\* get_balance base / quote and get_mid_price (163-165),
\* get_available_balance base / quote and get_mid_price (223-226); vol is
\* the float bandwidth of _calc_volatility, in 1e-4.
Answers(ready, mid1, bal_base, bal_quote, mid2, av_base, av_quote, mid3, vol) ==
    [ready |-> ready, mid1 |-> mid1, bal_base |-> bal_base,
     bal_quote |-> bal_quote, mid2 |-> mid2, av_base |-> av_base,
     av_quote |-> av_quote, mid3 |-> mid3, vol |-> vol]

\* every query answers: <<mid price (line 83), <<base, quote>> balances,
\* <<base, quote>> available balances, mid price of _check_balance>>;
\* base in 1e-3 BTC, quote and mid prices in dollars.  The skew query
\* (line 165) sees the mid price of line 83.
Scenarios ==
    {<<80000, <<0, 10000>>, <<20, 10000>>, 80000>>,
     <<82000, <<100, 8000>>, <<10, 800>>, 80000>>,
     <<76000, <<100, 8000>>, <<10, 760>>, 76000>>,
     <<80000, <<100, 8000>>, <<10, 810>>, 82000>>,
     <<80000, <<100, 8000>>, <<10, 799>>, 80000>>,
     <<80000, <<0, 10000>>, <<5, 10000>>, 80000>>,
     <<82000, <<100, 8000>>, <<9, 0>>, 82000>>}
VolValues == {50}

AnswersAllOk ==
    {Answers(Ok(1), Ok(s[1]), Ok(s[2][1]), Ok(s[2][2]), Ok(s[1]),
             Ok(s[3][1]), Ok(s[3][2]), Ok(s[4]), v) :
        s \in Scenarios, v \in VolValues}

\* the connector is not ready, a query raises, or a mid-price query gives None
AnswersFailing ==
    LET d(ready, mid1, bb, bq, mid2, ab, aq, mid3) ==
            Answers(ready, mid1, bb, bq, mid2, ab, aq, mid3, 0)
    IN  {d(Raises, Ok(0), Ok(0), Ok(0), Ok(0), Ok(0), Ok(0), Ok(0)),
         d(Ok(0), Ok(80000), Ok(0), Ok(10000), Ok(80000), Ok(20), Ok(10000), Ok(80000)),
         d(Ok(1), Raises, Ok(0), Ok(0), Ok(0), Ok(0), Ok(0), Ok(0)),
         d(Ok(1), NoneRet, Ok(0), Ok(0), Ok(0), Ok(0), Ok(0), Ok(0)),
         d(Ok(1), Ok(0), Ok(0), Ok(0), Ok(0), Ok(0), Ok(0), Ok(0))}
        \cup UNION {
            {d(Ok(1), Ok(m), Raises, Ok(0), Ok(0), Ok(0), Ok(0), Ok(0)),
             d(Ok(1), Ok(m), Ok(0), Raises, Ok(0), Ok(0), Ok(0), Ok(0)),
             d(Ok(1), Ok(m), Ok(0), Ok(10000), Raises, Ok(0), Ok(0), Ok(0)),
             d(Ok(1), Ok(m), Ok(0), Ok(10000), NoneRet, Ok(0), Ok(0), Ok(0)),
             d(Ok(1), Ok(m), Ok(0), Ok(10000), Ok(m), Raises, Ok(0), Ok(0)),
             d(Ok(1), Ok(m), Ok(0), Ok(10000), Ok(m), Ok(20), Raises, Ok(0)),
             d(Ok(1), Ok(m), Ok(0), Ok(10000), Ok(m), Ok(20), Ok(10000), Raises),
             d(Ok(1), Ok(m), Ok(0), Ok(10000), Ok(m), Ok(20), Ok(10000), NoneRet),
             d(Ok(1), Ok(m), Ok(0), Ok(10000), Ok(m), Ok(5), Ok(10000), NoneRet)} :
            m \in {80000}}

ConnectorAnswers == AnswersAllOk \cup AnswersFailing

(* ------------------------------ exceptions ---------------------------- *)

\* Exception classes that can be raised here, all subclasses of Exception:
\* a collaborator's own error, and the TypeError of Decimal * None.
ExceptionClasses == {"ConnectorError", "TypeError"}

\* Faulty variant of OnTickCatches: only the collaborator's own error
\* class is caught.
OnTickCatchesNarrow(exc) == exc = "ConnectorError"

\* on_tick line 114: except Exception
OnTickCatches(exc) == exc \in ExceptionClasses
\* _refresh_orders line 248 (around cancel_all): except Exception
CancelCatches(exc) == exc \in ExceptionClasses
\* _refresh_orders line 282 (around the whole body): except Exception
RefreshCatches(exc) == exc \in ExceptionClasses

(* -------------------------------- on_tick ----------------------------- *)

\* _calc_inventory_skew with its queries: the calls made, the exception
\* raised ("none" if none) and the skew returned
_calc_inventory_skew(c) ==
    IF c.bal_base.k = "raise" THEN
        [calls |-> <<"get_balance">>, exc |-> "ConnectorError", skew |-> 0]
    ELSE IF c.bal_quote.k = "raise" THEN
        [calls |-> <<"get_balance", "get_balance">>, exc |-> "ConnectorError", skew |-> 0]
    ELSE IF c.mid2.k = "raise" THEN
        [calls |-> <<"get_balance", "get_balance", "get_mid_price">>,
         exc |-> "ConnectorError", skew |-> 0]
    ELSE IF c.mid2.k = "none" THEN
        \* base_bal * None
        [calls |-> <<"get_balance", "get_balance", "get_mid_price">>,
         exc |-> "TypeError", skew |-> 0]
    ELSE [calls |-> <<"get_balance", "get_balance", "get_mid_price">>,
          exc |-> "none",
          skew |-> SkewOf(c.bal_base.v, c.bal_quote.v, c.mid2.v)]

\* _check_balance with its queries: the calls made, the exception raised
\* and the value returned
_check_balance(c) ==
    IF c.av_base.k = "raise" THEN
        [calls |-> <<"get_available_balance">>, exc |-> "ConnectorError", ok |-> FALSE]
    ELSE IF c.av_quote.k = "raise" THEN
        [calls |-> <<"get_available_balance", "get_available_balance">>,
         exc |-> "ConnectorError", ok |-> FALSE]
    ELSE IF c.mid3.k = "raise" THEN
        [calls |-> <<"get_available_balance", "get_available_balance", "get_mid_price">>,
         exc |-> "ConnectorError", ok |-> FALSE]
    ELSE IF c.av_base.v < order_amount THEN
        [calls |-> <<"get_available_balance", "get_available_balance", "get_mid_price">>,
         exc |-> "none", ok |-> FALSE]
    ELSE IF c.mid3.k = "none" THEN
        \* self.order_amount * None
        [calls |-> <<"get_available_balance", "get_available_balance", "get_mid_price">>,
         exc |-> "TypeError", ok |-> FALSE]
    ELSE [calls |-> <<"get_available_balance", "get_available_balance", "get_mid_price">>,
          exc |-> "none",
          ok |-> BalanceSufficient(c.av_base.v, c.av_quote.v, c.mid3.v)]

\* the values on_tick logs at lines 99 and 105, with the balances and the
\* mid price the skew was computed from
NoSignals ==
    [vol |-> 0, trend |-> 0, skew |-> 0, bid_spread |-> 0, ask_spread |-> 0,
     base_bal |-> 0, quote_bal |-> 0, mid_price |-> 0]

\* Faulty variant of TickOut: last_refresh is set only by a tick that
\* starts a refresh (the assignment of line 69 moved behind the checks).
TickOutStampsOnRefresh(lr, pd, calls, result, exc, sig) ==
    [last_refresh |-> IF result = "spawned" THEN lr ELSE last_refresh,
     price_data |-> pd, calls |-> calls,
     result |-> result, exc |-> exc, sig |-> sig]

\* What one on_tick call at timestamp t does, given the connector's
\* answers c: the new last_refresh and price_data, the collaborator calls
\* made, how the call ended (result), the exception raised inside the try
\* block, the signals logged, and whether a refresh task is created.
\* result: "interval" (line 67), "not_ready" (80), "no_mid" (85),
\* "insufficient" (112), "spawned" (110), "error" (an exception).
TickOut(lr, pd, calls, result, exc, sig) ==
    [last_refresh |-> lr, price_data |-> pd, calls |-> calls,
     result |-> result, exc |-> exc, sig |-> sig]

\* Faulty variant of ConnectorNotReady: the readiness test of lines 77-80
\* is left out.
ConnectorReadyUnchecked(c) == FALSE

\* line 77: not self.connectors[self.exchange].ready
ConnectorNotReady(c) == c.ready.v = 0

\* Faulty variant of IntervalElapsed: the timestamp itself, not the time
\* since the last refresh, is compared with the interval.
IntervalElapsedAbsolute(t) == t >= order_refresh_time

\* line 66 negated: the refresh interval has elapsed at timestamp t
IntervalElapsed(t) == t - last_refresh >= order_refresh_time

on_tick(t, c) ==
    IF ~IntervalElapsed(t) THEN
        TickOut(last_refresh, price_data, <<>>, "interval", "none", NoSignals)
    ELSE IF c.ready.k = "raise" THEN
        TickOut(t, price_data, <<"ready">>, "error", "ConnectorError", NoSignals)
    ELSE IF ConnectorNotReady(c) THEN
        TickOut(t, price_data, <<"ready">>, "not_ready", "none", NoSignals)
    ELSE IF c.mid1.k = "raise" THEN
        TickOut(t, price_data, <<"ready", "get_mid_price">>, "error",
                "ConnectorError", NoSignals)
    ELSE IF c.mid1.k = "none" \/ c.mid1.v = 0 THEN
        TickOut(t, price_data, <<"ready", "get_mid_price">>, "no_mid", "none", NoSignals)
    ELSE
        LET pd    == Push(price_data, c.mid1.v)
            vol   == _calc_volatility(pd, c.vol)
            trend == _calc_trend(pd)
            sk    == _calc_inventory_skew(c)
            calls1 == <<"ready", "get_mid_price">> \o sk.calls
        IN  IF sk.exc # "none" THEN
                TickOut(t, pd, calls1, "error", sk.exc, NoSignals)
            ELSE
                LET bid == _calc_bid_spread(vol, trend, sk.skew)
                    ask == _calc_ask_spread(vol, trend, sk.skew)
                    sig == [vol |-> vol, trend |-> trend, skew |-> sk.skew,
                            bid_spread |-> bid, ask_spread |-> ask,
                            base_bal |-> c.bal_base.v, quote_bal |-> c.bal_quote.v,
                            mid_price |-> c.mid2.v]
                    cb  == _check_balance(c)
                    calls2 == calls1 \o cb.calls
                IN  IF cb.exc # "none" THEN
                        TickOut(t, pd, calls2, "error", cb.exc, sig)
                    ELSE IF cb.ok THEN
                        TickOut(t, pd, calls2, "spawned", "none", sig)
                    ELSE TickOut(t, pd, calls2, "insufficient", "none", sig)

\* asyncio.create_task(self._refresh_orders(exchange, pair, mid_price,
\* bid_spread, ask_spread)): the task before its first step
NewTask(mid_price, bid_spread, ask_spread, t) ==
    [pc |-> "created", mid_price |-> mid_price, bid_spread |-> bid_spread,
     ask_spread |-> ask_spread, bid_price |-> 0, ask_price |-> 0,
     bid_id |-> 0, ask_id |-> 0, cancel |-> "none", buy |-> "none",
     sell |-> "none", calls |-> <<>>, created_at |-> t]

\* The scheduler's clock advances by dt and calls on_tick.  The event loop
\* is single-threaded: no tick runs while a task executes between two
\* awaits, and a task made by create_task runs its first step (up to its
\* first await) before the clock's next tick.
OnTick(dt, c) ==
    /\ running = 0
    /\ \A i \in 1..Len(tasks) : tasks[i].pc # "created"
    /\ now + dt <= MaxTime
    /\ \E t \in {now + dt} : \E o \in {on_tick(t, c)} :
           /\ now' = t
           /\ last_refresh' = o.last_refresh
           /\ price_data' = o.price_data
           /\ tasks' = IF o.result = "spawned"
                       THEN Append(tasks, NewTask(c.mid1.v, o.sig.bid_spread,
                                                  o.sig.ask_spread, t))
                       ELSE tasks
           /\ last_tick' = [calls |-> o.calls, result |-> o.result, exc |-> o.exc,
                            ready |-> IF o.calls = <<>> THEN "unasked"
                                      ELSE IF c.ready.k = "raise" THEN "raise"
                                      ELSE IF c.ready.v = 0 THEN "no" ELSE "yes",
                            mid_price |-> IF Len(o.calls) >= 2 /\ c.mid1.k = "ok"
                                          THEN c.mid1.v ELSE 0,
                            base_avail |-> c.av_base.v, quote_avail |-> c.av_quote.v,
                            check_mid |-> c.mid3.v]
           /\ escaped' = (escaped \/ (o.exc # "none" /\ ~OnTickCatches(o.exc)))
    /\ UNCHANGED <<active_orders, running, next_id, calc>>

(* --------------------------- _refresh_orders -------------------------- *)

\* one entry of self.active_orders: the dict key and the stored fields
OrderRecord(id, side, price, time) ==
    [id |-> id, side |-> side, price |-> price, amount |-> order_amount, time |-> time]

\* self.active_orders[id] = {...}: a dict assignment replaces the entry
\* of that key
PutOrder(orders, rec) == {r \in orders : r.id # rec.id} \cup {rec}

\* lines 266-278: the two assignments after both placement calls returned
StoreOrders(orders, task, time) ==
    PutOrder(PutOrder(orders, OrderRecord(task.bid_id, "buy", task.bid_price, time)),
             OrderRecord(task.ask_id, "sell", task.ask_price, time))

\* Faulty variant of AfterCancel: the records are dropped whether
\* cancel_all returned or raised.
AfterCancelAlwaysClears(orders, outcome) == {}

\* line 247, after cancel_all returned: self.active_orders = {}
AfterCancel(orders, outcome) == IF outcome = "ok" THEN {} ELSE orders

\* lines 239-246: the task's first step computes the two prices and calls
\* connector.cancel_all, whose await suspends the task
RefreshStart(i) ==
    /\ running = 0
    /\ tasks[i].pc = "created"
    /\ tasks' = [tasks EXCEPT ![i].pc = "cancelling",
                              ![i].bid_price = BidPrice(tasks[i].mid_price, 1, tasks[i].bid_spread),
                              ![i].ask_price = AskPrice(tasks[i].mid_price, 1, tasks[i].ask_spread),
                              ![i].calls = Append(@, "cancel_all")]
    /\ UNCHANGED <<now, last_refresh, price_data, active_orders, running, next_id,
                   last_tick, escaped, calc>>

\* lines 246-249: cancel_all returns or raises and the task resumes; from
\* here to its end the task runs without another await
CancelReturns(i, outcome) ==
    /\ running = 0
    /\ tasks[i].pc = "cancelling"
    /\ IF outcome = "ok" \/ CancelCatches("ConnectorError")
       THEN /\ tasks' = [tasks EXCEPT ![i].pc = "buy", ![i].cancel = outcome]
            /\ running' = i
            /\ escaped' = escaped
       ELSE IF RefreshCatches("ConnectorError")
       THEN /\ tasks' = [tasks EXCEPT ![i].pc = "done", ![i].cancel = outcome]
            /\ running' = 0
            /\ escaped' = escaped
       ELSE /\ tasks' = [tasks EXCEPT ![i].pc = "done", ![i].cancel = outcome]
            /\ running' = 0
            /\ escaped' = TRUE
    /\ active_orders' = AfterCancel(active_orders, outcome)
    /\ UNCHANGED <<now, last_refresh, price_data, next_id, last_tick, calc>>

\* Faulty variant of PlacementRaised: the failure is logged but the cycle
\* is not ended; it stays where the call was made.
PlacementRaisedCycleKept(i, field) ==
    /\ tasks' = [tasks EXCEPT ![i][field] = "raised",
                              ![i].calls = Append(@, field)]
    /\ running' = 0
    /\ escaped' = (escaped \/ ~RefreshCatches("ConnectorError"))
    /\ UNCHANGED next_id

\* what an exception raised by a placement call does: line 282 catches it
\* and the task ends
PlacementRaised(i, field) ==
    /\ tasks' = [tasks EXCEPT ![i].pc = "done", ![i][field] = "raised",
                              ![i].calls = Append(@, field)]
    /\ running' = 0
    /\ escaped' = (escaped \/ ~RefreshCatches("ConnectorError"))
    /\ UNCHANGED next_id

\* lines 252-257: connector.buy
Buy(i, outcome) ==
    /\ running = i
    /\ tasks[i].pc = "buy"
    /\ IF outcome = "ok"
       THEN /\ tasks' = [tasks EXCEPT ![i].pc = "sell", ![i].buy = "ok",
                                      ![i].bid_id = next_id,
                                      ![i].calls = Append(@, "buy")]
            /\ next_id' = next_id + 1
            /\ UNCHANGED <<running, escaped>>
       ELSE PlacementRaised(i, "buy")
    /\ UNCHANGED <<now, last_refresh, price_data, active_orders, last_tick, calc>>

\* lines 259-264: connector.sell
Sell(i, outcome) ==
    /\ running = i
    /\ tasks[i].pc = "sell"
    /\ IF outcome = "ok"
       THEN /\ tasks' = [tasks EXCEPT ![i].pc = "record", ![i].sell = "ok",
                                      ![i].ask_id = next_id,
                                      ![i].calls = Append(@, "sell")]
            /\ next_id' = next_id + 1
            /\ UNCHANGED <<running, escaped>>
       ELSE PlacementRaised(i, "sell")
    /\ UNCHANGED <<now, last_refresh, price_data, active_orders, last_tick, calc>>

\* lines 266-280: both records are stored and the task ends
Record(i) ==
    /\ running = i
    /\ tasks[i].pc = "record"
    /\ active_orders' = StoreOrders(active_orders, tasks[i], now)
    /\ tasks' = [tasks EXCEPT ![i].pc = "done"]
    /\ running' = 0
    /\ UNCHANGED <<now, last_refresh, price_data, next_id, last_tick, escaped, calc>>

(* ---------------------------- specification --------------------------- *)

NoCalc ==
    [fn |-> "none", vol |-> 0, trend |-> 0, skew |-> 0, bid_spread |-> 0,
     ask_spread |-> 0, base_bal |-> 0, quote_bal |-> 0, mid_price |-> 0,
     scale |-> 1, orders |-> {}]

\* __init__, lines 37-48
Init ==
    /\ now = StartTime
    /\ last_refresh = 0
    /\ \E nEven \in SeedNoise, nOdd \in SeedNoise :
           price_data = InitPriceData(nEven, nOdd)
    /\ active_orders = {}
    /\ tasks = <<>>
    /\ running = 0
    /\ next_id = 1
    /\ last_tick = [calls |-> <<>>, result |-> "none", exc |-> "none",
                    ready |-> "unasked",
                    mid_price |-> 0,
                    base_avail |-> 0, quote_avail |-> 0,
                    check_mid |-> 0]
    /\ escaped = FALSE
    /\ calc = NoCalc

Outcomes == {"ok", "raised"}

Next ==
    \/ \E dt \in TickSteps, c \in ConnectorAnswers : OnTick(dt, c)
    \/ \E i \in 1..Len(tasks) : RefreshStart(i)
    \/ \E i \in 1..Len(tasks), o \in Outcomes : CancelReturns(i, o)
    \/ \E i \in 1..Len(tasks), o \in Outcomes : Buy(i, o)
    \/ \E i \in 1..Len(tasks), o \in Outcomes : Sell(i, o)
    \/ \E i \in 1..Len(tasks) : Record(i)

Spec == Init /\ [][Next]_vars

\* The same program with the scheduling the event loop gives: a created
\* task is run, a task resumed after its await runs on to its end (buy and
\* sell are plain calls, lines 252-264), and cancel_all, the one awaited
\* call, eventually returns or raises.  At most MaxTasks refreshes fit
\* between StartTime and MaxTime.
MaxTasks == (MaxTime - StartTime) \div order_refresh_time

TaskStep(i) ==
    /\ i <= Len(tasks)
    /\ \/ RefreshStart(i)
       \/ \E o \in Outcomes : CancelReturns(i, o)
       \/ \E o \in Outcomes : Buy(i, o)
       \/ \E o \in Outcomes : Sell(i, o)
       \/ Record(i)

SpecLive == Init /\ [][Next]_vars /\ \A i \in 1..MaxTasks : WF_vars(TaskStep(i))

(* ------------- the calculators evaluated on their own ----------------- *)

\* largest volatility tried, in 1e-4 (1000.0)
MaxVol == 10000000
SpreadVols == {0, 1, 50, 300, 6666, 9999, 10000, 83751, 190000, MaxVol}
SpreadSkews == {250 * k - 10000 : k \in 0..80} \cup {-9999, -1, 1, 62, 9999}

\* _calc_bid_spread and _calc_ask_spread applied once to an argument triple
CalcSpread(v, t, sk) ==
    /\ calc.fn = "none"
    /\ calc' = [NoCalc EXCEPT !.fn = "spread", !.vol = v, !.trend = t, !.skew = sk,
                              !.bid_spread = _calc_bid_spread(v, t, sk),
                              !.ask_spread = _calc_ask_spread(v, t, sk)]
    /\ UNCHANGED <<now, last_refresh, price_data, active_orders, tasks, running,
                   next_id, last_tick, escaped>>

NextSpread == \E v \in SpreadVols, t \in {-1, 0, 1}, sk \in SpreadSkews : CalcSpread(v, t, sk)

SpecSpread == Init /\ [][NextSpread]_vars

\* largest base balance tried, in 1e-3 BTC
MaxBase == 250
SkewBases == {0, 1, 5, 10, 50, 100, 125, MaxBase}
SkewQuotes == {0, 1, 799, 800, 8000, 10000, 10125, 20000}
SkewMids == {1, 79999, 80000, 81000}

\* the arithmetic of _calc_inventory_skew applied once to an argument triple
CalcSkew(b, q, m) ==
    /\ calc.fn = "none"
    /\ calc' = [NoCalc EXCEPT !.fn = "skew", !.base_bal = b, !.quote_bal = q,
                              !.mid_price = m, !.skew = SkewOf(b, q, m)]
    /\ UNCHANGED <<now, last_refresh, price_data, active_orders, tasks, running,
                   next_id, last_tick, escaped>>

NextSkew == \E b \in SkewBases, q \in SkewQuotes, m \in SkewMids : CalcSkew(b, q, m)

SpecSkew == Init /\ [][NextSkew]_vars

\* The indicators evaluated on windows of any length and shape: the
\* window is self.price_data as the two functions find it.
IndLens == {0, 1, 10, 19, 20, 49, 50, 51, 100}
\* largest step between two neighbouring samples of a ramp, in dollars
MaxStep == 12
IndSteps == (0 - MaxStep)..MaxStep
\* the float bandwidths tried for a window of at least bb_length samples
IndBandwidths == {0, 37}

\* len samples, the first one start, each next one step higher
Ramp(start, step, len) == [k \in 1..len |-> start + step * (k - 1)]
\* len samples, the last fast_ma of them at b and the ones before at a
TwoLevel(a, b, len) == [k \in 1..len |-> IF k > len - fast_ma THEN b ELSE a]

\* two-level windows around the two margins: with a = 79960 and b = 80160
\* the slow mean is 80000 and the fast mean exactly 1.002 times that
MarginLevels ==
    {<<79960, 80159>>, <<79960, 80160>>, <<79960, 80161>>,
     <<80040, 79839>>, <<80040, 79840>>, <<80040, 79841>>}

IndWindows ==
    {Ramp(SeedBase, st, n) : st \in IndSteps, n \in IndLens}
        \cup {TwoLevel(l[1], l[2], n) : l \in MarginLevels, n \in {50, 51, 100}}
        \cup {InitPriceData(e, o) : e \in SeedNoise, o \in SeedNoise}

InitInd ==
    /\ now = StartTime
    /\ last_refresh = 0
    /\ price_data \in IndWindows
    /\ active_orders = {}
    /\ tasks = <<>>
    /\ running = 0
    /\ next_id = 1
    /\ last_tick = [calls |-> <<>>, result |-> "none", exc |-> "none",
                    ready |-> "unasked",
                    mid_price |-> 0,
                    base_avail |-> 0, quote_avail |-> 0,
                    check_mid |-> 0]
    /\ escaped = FALSE
    /\ calc = NoCalc

\* _calc_volatility and _calc_trend applied once to the window
CalcIndicators(bandwidth) ==
    /\ calc.fn = "none"
    /\ calc' = [NoCalc EXCEPT !.fn = "indicators",
                              !.vol = _calc_volatility(price_data, bandwidth),
                              !.trend = _calc_trend(price_data)]
    /\ UNCHANGED <<now, last_refresh, price_data, active_orders, tasks, running,
                   next_id, last_tick, escaped>>

NextInd == \E bw \in IndBandwidths : CalcIndicators(bw)

SpecInd == InitInd /\ [][NextInd]_vars

\* The quotes of one refresh computed on their own: the spreads of the
\* spread calculator, the two prices of lines 242-243 and the two records
\* of lines 266-278, for mid prices <<count, scale>> from a tenth of a cent
\* up to MaxMid dollars.
MaxMid == 200000
QuoteMids ==
    {<<1, 1000>>, <<5, 1000>>, <<15, 1000>>, <<49, 1000>>, <<1, 100>>,
     <<9999, 100>>, <<80000, 1>>, <<80000005, 1000>>, <<8000049, 100>>,
     <<800005, 10>>, <<MaxMid, 1>>}
QuoteVols == {0, 50, 300, 190000}
QuoteSkews == {-10000, -5000, -62, 0, 1, 2500, 10000}

CalcQuote(m, v, t, sk) ==
    /\ calc.fn = "none"
    /\ \E bid \in {_calc_bid_spread(v, t, sk)}, ask \in {_calc_ask_spread(v, t, sk)} :
           LET task == [bid_id |-> next_id, ask_id |-> next_id + 1,
                        bid_price |-> BidPrice(m[1], m[2], bid),
                        ask_price |-> AskPrice(m[1], m[2], ask)]
           IN  calc' = [NoCalc EXCEPT !.fn = "quote", !.vol = v, !.trend = t,
                                      !.skew = sk, !.bid_spread = bid,
                                      !.ask_spread = ask, !.mid_price = m[1],
                                      !.scale = m[2],
                                      !.orders = StoreOrders({}, task, now)]
    /\ UNCHANGED <<now, last_refresh, price_data, active_orders, tasks, running,
                   next_id, last_tick, escaped>>

NextQuote ==
    \E m \in QuoteMids, v \in QuoteVols, t \in {-1, 0, 1}, sk \in QuoteSkews :
        CalcQuote(m, v, t, sk)

SpecQuote == Init /\ [][NextQuote]_vars

(* ------------------------------ properties ---------------------------- *)

\* the refresh tasks that were created and have not ended
Outstanding == {i \in 1..Len(tasks) : tasks[i].pc # "done"}

\* C1: no two refresh cycles are outstanding at the same time: a refresh
\* is never started while an earlier one has not finished its cancel/place
\* sequence.
C1_NoConcurrentRefresh == Cardinality(Outstanding) <= 1

\* C2: when a refresh cycle whose two placement calls succeeded ends, the
\* order-record set holds exactly the two orders of that cycle (one buy,
\* one sell) and nothing older, whether cancel_all returned or raised.
C2_ExactlyTwoNewOrders ==
    [][\A i \in 1..Len(tasks) :
          (tasks[i].pc = "record" /\ tasks'[i].pc = "done") =>
              active_orders' =
                  {OrderRecord(tasks[i].bid_id, "buy", tasks[i].bid_price, now),
                   OrderRecord(tasks[i].ask_id, "sell", tasks[i].ask_price, now)}]_vars

\* C3: no exception raised by a collaborator call, in on_tick or in the
\* refresh task, ever leaves on_tick or the task.
C3_NoExceptionEscapes == escaped = FALSE

C3_Witness ==
    /\ last_tick.result = "error"
    /\ last_tick.exc = "TypeError"
    /\ \E i \in 1..Len(tasks) :
           tasks[i].pc = "done" /\ tasks[i].cancel = "raised" /\ tasks[i].sell = "raised"
    /\ escaped = FALSE

\* C4: a tick creates a refresh only if the available base balance is at
\* least order_amount and the available quote balance at least
\* order_amount * mid_price (the mid price _check_balance queried); a tick
\* whose balance check finds either short makes no cancel, buy or sell
\* call, starts no refresh and leaves the order-record set unchanged.
C4_BalanceGate ==
    [][now' # now =>
          LET lt   == last_tick'
              suff == /\ lt.base_avail >= order_amount
                      /\ lt.quote_avail * 1000 >= order_amount * lt.check_mid
          IN  /\ Len(tasks') > Len(tasks) => (lt.result = "spawned" /\ suff)
              /\ (lt.result \in {"spawned", "insufficient"} /\ ~suff) =>
                     /\ lt.result = "insufficient"
                     /\ tasks' = tasks
                     /\ active_orders' = active_orders
                     /\ \A k \in 1..Len(lt.calls) :
                            lt.calls[k] \notin {"cancel_all", "buy", "sell"}]_vars

C4_Witness ==
    /\ last_tick.result = "insufficient"
    /\ last_tick.base_avail >= order_amount
    /\ last_tick.quote_avail * 1000 < order_amount * last_tick.check_mid
    /\ Len(tasks) >= 1

\* C5: a tick at which less than order_refresh_time has passed since the
\* last refresh changes neither the price window, the order-record set nor
\* last_refresh, starts no refresh and makes no collaborator call; and any
\* two refresh cycles are created at least order_refresh_time apart.
C5_IntervalNoOp ==
    [][now' # now =>
          /\ (now' - last_refresh < order_refresh_time) =>
                 /\ price_data' = price_data
                 /\ active_orders' = active_orders
                 /\ last_refresh' = last_refresh
                 /\ tasks' = tasks
                 /\ last_tick'.calls = <<>>
          /\ \A i, j \in 1..Len(tasks') :
                 i < j => tasks'[j].created_at - tasks'[i].created_at >= order_refresh_time]_vars

C5_Witness ==
    /\ last_tick.result = "interval"
    /\ Len(tasks) = 2
    /\ now - last_refresh < order_refresh_time

\* C6: when a refresh cycle ends after exactly one placement call failed,
\* the order of the side whose call succeeded is in the order-record set.
C6_OtherSideRecorded ==
    [][\A i \in 1..Len(tasks) :
          (tasks[i].pc # "done" /\ tasks'[i].pc = "done") =>
              /\ tasks'[i].buy = "ok" =>
                     \E r \in active_orders' : r.id = tasks'[i].bid_id /\ r.side = "buy"
              /\ tasks'[i].sell = "ok" =>
                     \E r \in active_orders' : r.id = tasks'[i].ask_id /\ r.side = "sell"]_vars

\* C7: every refresh cycle that has ended attempted cancel_all, then the
\* buy submission, then the sell submission, whatever cancel_all did.
C7_PlacementAlwaysAttempted ==
    \A i \in 1..Len(tasks) :
        tasks[i].pc = "done" => tasks[i].calls = <<"cancel_all", "buy", "sell">>

\* The part of C7 that concerns cancel_all alone: whether it returned or
\* raised, the buy submission is attempted next, and the sell submission
\* follows whenever the buy call returned.
CancelNeverBlocksPlacement ==
    \A i \in 1..Len(tasks) :
        tasks[i].pc = "done" =>
            /\ tasks[i].cancel \in {"ok", "raised"}
            /\ Len(tasks[i].calls) >= 2
            /\ tasks[i].calls[1] = "cancel_all"
            /\ tasks[i].calls[2] = "buy"
            /\ tasks[i].buy = "ok" => tasks[i].calls = <<"cancel_all", "buy", "sell">>

\* C8: for every volatility >= 0, every trend and every skew in [-1, 1],
\* the bid spread and the ask spread returned lie in
\* [min_spread, max_spread].
C8_SpreadsWithinBounds ==
    calc.fn = "spread" =>
        /\ min_spread <= calc.bid_spread /\ calc.bid_spread <= max_spread
        /\ min_spread <= calc.ask_spread /\ calc.ask_spread <= max_spread

C8_Witness ==
    /\ calc.fn = "spread"
    /\ calc.vol = MaxVol
    /\ calc.skew = 10000
    /\ calc.bid_spread = max_spread
    /\ calc.ask_spread = min_spread

\* |skew/10000 - (bv - qv)/(bv + qv)| <= 1/20000, for values bv, qv (in 1e-3
\* dollars) with bv + qv > 0: the skew is the 4-place rounding of
\* (bv/(bv+qv) - 0.5)/0.5.  With total = th*10000 + tl the difference
\* skew*total - 10000*(bv - qv) is (skew*th - (bv - qv))*10000 + skew*tl.
SkewIsRoundedRatio(skew, bv, qv) ==
    LET total == bv + qv
        th    == total \div 10000
        tl    == total % 10000
        e     == skew * th - (bv - qv)
        diff  == e * 10000 + skew * tl
    IN  /\ e > -20000 /\ e < 20000
        /\ 2 * diff <= total
        /\ 2 * diff >= 0 - total

\* C9: for non-negative balances and a positive mid price the skew is
\* (base*mid/(base*mid+quote) - target_pct)/max_skew, rounded to 4 places,
\* and lies in [-1, 1]; it is 0 when the total value is 0 and exactly -1
\* when the base balance is 0 and the quote balance is positive.
C9_SkewFormula ==
    calc.fn = "skew" =>
        LET bv == calc.base_bal * calc.mid_price
            qv == calc.quote_bal * 1000
        IN  /\ calc.skew >= -10000 /\ calc.skew <= 10000
            /\ bv + qv = 0 => calc.skew = 0
            /\ bv + qv > 0 => SkewIsRoundedRatio(calc.skew, bv, qv)
            /\ (calc.base_bal = 0 /\ calc.quote_bal > 0) => calc.skew = -10000

C9_Witness ==
    /\ calc.fn = "skew"
    /\ calc.base_bal = 0
    /\ calc.quote_bal = 10000
    /\ calc.mid_price = 80000
    /\ calc.skew = -10000

\* C10: the price window never holds more than 100 samples; a push puts
\* the new mid price at the end and, when the window was full, removes
\* exactly the oldest sample, the others keeping their order; nothing else
\* changes the window.
C10_WindowFifo ==
    /\ Len(price_data) <= WindowCap
    /\ [][/\ Len(price_data') <= WindowCap
          /\ IF now' # now /\ last_tick'.mid_price # 0
             THEN LET kept == IF Len(price_data) = WindowCap
                              THEN Tail(price_data) ELSE price_data
                  IN  price_data' = Append(kept, last_tick'.mid_price)
             ELSE price_data' = price_data]_vars

C10_Witness ==
    /\ Len(price_data) = WindowCap
    /\ last_tick.mid_price = 82000
    /\ price_data[WindowCap] = 82000
    /\ \E n \in SeedNoise : price_data[1] = SeedSample(1, n)

StrictlyIncreasing(w) == \A k \in 1..(Len(w) - 1) : w[k] < w[k + 1]
StrictlyDecreasing(w) == \A k \in 1..(Len(w) - 1) : w[k] > w[k + 1]

\* C11 as stated: every strictly increasing window of at least slow_ma
\* samples gives Up and every strictly decreasing one gives Down.
C11_MonotoneGivesTrend ==
    (calc.fn = "indicators" /\ Len(price_data) >= slow_ma) =>
        /\ StrictlyIncreasing(price_data) => calc.trend = 1
        /\ StrictlyDecreasing(price_data) => calc.trend = -1

\* C11, amended: for a strictly increasing window of at least slow_ma
\* samples the trend is Up or Neutral, never Down, and for a strictly
\* decreasing one it is Down or Neutral, never Up.
C11_MonotoneNeverOpposite ==
    (calc.fn = "indicators" /\ Len(price_data) >= slow_ma) =>
        /\ StrictlyIncreasing(price_data) => calc.trend \in {0, 1}
        /\ StrictlyDecreasing(price_data) => calc.trend \in {-1, 0}

C11_Witness ==
    /\ calc.fn = "indicators"
    /\ Len(price_data) = WindowCap
    /\ StrictlyIncreasing(price_data)
    /\ price_data[2] - price_data[1] = MaxStep
    /\ calc.trend = 1

\* C12: too few samples never give an error: for every window of fewer than
\* bb_length samples the volatility is exactly the fallback 0.005, and for
\* every window of fewer than slow_ma samples the trend is Neutral.
C12_InsufficientDataFallback ==
    calc.fn = "indicators" =>
        /\ Len(price_data) < bb_length => calc.vol = VolFallback
        /\ Len(price_data) < slow_ma => calc.trend = 0

C12_Witness ==
    /\ calc.fn = "indicators"
    /\ Len(price_data) = bb_length - 1
    /\ price_data[2] - price_data[1] = MaxStep
    /\ calc.vol = VolFallback
    /\ calc.trend = 0

\* C13: a tick that passes the interval gate and finds the connector not
\* ready, or gets no mid price (None or 0), is skipped: it starts no
\* refresh, makes no cancel, buy or sell call, and leaves the price window
\* and the order-record set unchanged.
C13_SkippedTick ==
    [][(/\ now' # now
        /\ \/ last_tick'.ready = "no"
           \/ /\ last_tick'.ready = "yes"
              /\ Len(last_tick'.calls) >= 2
              /\ last_tick'.exc = "none"
              /\ last_tick'.mid_price = 0) =>
           /\ price_data' = price_data
           /\ active_orders' = active_orders
           /\ tasks' = tasks
           /\ \A k \in 1..Len(last_tick'.calls) :
                  last_tick'.calls[k] \notin {"cancel_all", "buy", "sell"}]_vars

C13_Witness ==
    /\ last_tick.ready = "no"
    /\ last_tick.result = "not_ready"
    /\ Cardinality(active_orders) = 2
    /\ Outstanding = {}

\* C14 as stated: a refresh cycle whose placement calls have not yet been
\* made has not cleared or changed the order-record set: the step that
\* takes a cycle from its cancel_all call to its buy call leaves the set
\* as it was.
C14_SetUntouchedBeforePlacement ==
    [][\A i \in 1..Len(tasks) :
          (tasks[i].pc = "cancelling" /\ tasks'[i].pc = "buy") =>
              active_orders' = active_orders]_vars

\* C14, amended: the steps of a cycle are sequential (cancel_all, buy,
\* sell, in that order); the order-record set is emptied when, and only
\* when, a cycle's cancel_all has returned without raising, before that
\* cycle's placement calls; records are added only when both placement
\* calls of a cycle have returned, and they are that cycle's two records;
\* nothing else changes the set.
C14_SetChangesOnlyAtCancelAndRecord ==
    [][/\ \A i \in 1..Len(tasks) :
              /\ (tasks[i].pc = "cancelling" /\ tasks'[i].pc # "cancelling") =>
                     IF tasks'[i].cancel = "ok"
                     THEN active_orders' = {} /\ tasks'[i].calls = <<"cancel_all">>
                     ELSE active_orders' = active_orders
              /\ \A k \in 1..Len(tasks'[i].calls) :
                     tasks'[i].calls[k] = <<"cancel_all", "buy", "sell">>[k]
       /\ active_orders' # active_orders =>
              \E i \in 1..Len(tasks) :
                  \/ /\ tasks[i].pc = "cancelling"
                     /\ tasks'[i].pc = "buy"
                     /\ tasks'[i].cancel = "ok"
                  \/ /\ tasks[i].pc = "record"
                     /\ tasks'[i].pc = "done"
                     /\ tasks[i].calls = <<"cancel_all", "buy", "sell">>
                     /\ tasks[i].buy = "ok" /\ tasks[i].sell = "ok"
                     /\ active_orders \subseteq active_orders'
                     /\ {r.id : r \in active_orders' \ active_orders}
                            = {tasks[i].bid_id, tasks[i].ask_id}]_vars

C14_Witness ==
    /\ Len(tasks) = 2
    /\ tasks[1].pc = "done" /\ tasks[1].buy = "ok" /\ tasks[1].sell = "ok"
    /\ tasks[2].pc = "buy" /\ tasks[2].cancel = "ok"
    /\ running = 2
    /\ active_orders = {}

\* The two tests of the claim on the plain sums Sf of the last fast_ma and
\* Ss of the last slow_ma samples: Sf/fast_ma > 1.002 * Ss/slow_ma iff
\* 1000*slow_ma*Sf > 1002*fast_ma*Ss, both sides divided by 20 to stay
\* within 32 bits (samples below 85000); likewise with 0.998.
FastMeanAboveMargin(w) ==
    (50 * slow_ma) * SumLast(w, fast_ma, 0) > ((1002 * fast_ma) \div 20) * SumLast(w, slow_ma, 0)
FastMeanBelowMargin(w) ==
    (50 * slow_ma) * SumLast(w, fast_ma, 0) < ((998 * fast_ma) \div 20) * SumLast(w, slow_ma, 0)

\* C15: for every window of at least slow_ma samples the trend is Up
\* exactly when the mean of the last fast_ma samples is greater than 1.002
\* times the mean of the last slow_ma samples, Down exactly when it is less
\* than 0.998 times that mean, and Neutral otherwise, also when the two
\* means are equal or differ by exactly the 0.2% margin.
C15_TrendThresholds ==
    (calc.fn = "indicators" /\ Len(price_data) >= slow_ma) =>
        /\ calc.trend \in {-1, 0, 1}
        /\ calc.trend = 1 <=> FastMeanAboveMargin(price_data)
        /\ calc.trend = -1 <=> FastMeanBelowMargin(price_data)

C15_Witness ==
    /\ calc.fn = "indicators"
    /\ price_data = TwoLevel(79960, 80160, slow_ma)
    /\ (50 * slow_ma) * SumLast(price_data, fast_ma, 0)
           = ((1002 * fast_ma) \div 20) * SumLast(price_data, slow_ma, 0)
    /\ calc.trend = 0

\* r (in 1e-4) is the spread the pipeline of the claim gives for
\* volatility v (1e-4), trend factor tf (tenths) and inventory factor f
\* (1e-4): base_spread * (1 + v) * tf/10 * f/10000 is y * f / 10^8 in 1e-4,
\* with y = (10000 + v) * tf / 2.  Where y * f fits in 32 bits r is compared
\* with the clamped product rounded half-even; for larger y the product
\* lies between yh * f and (yh + 1) * f in 1e-4 of 1e-4 (yh = y div 10000)
\* and r with the clamped bounds of that interval.
SpreadFollowsPipeline(r, v, tf, f) ==
    LET y  == (10000 + v) * (tf \div 2)
        yh == y \div 10000
        p  == y * f
        h  == 10 ^ 8
        clamp(x) == IF x < min_spread THEN min_spread
                    ELSE IF x > max_spread THEN max_spread ELSE x
    IN  IF y <= 100000 THEN
            IF p <= min_spread * h THEN r = min_spread
            ELSE /\ r \in {p \div h, p \div h + 1}
                 /\ 2 * (p - r * h) <= h
                 /\ 2 * (r * h - p) <= h
                 /\ (2 * (p % h) = h) => r % 2 = 0
        ELSE /\ clamp((yh * f) \div 10000) <= r
             /\ r <= clamp(((yh + 1) * f) \div 10000 + 1)
             /\ yh * f >= 100 * max_spread * 100 => r = max_spread
             /\ f = 0 => r = min_spread

\* C16: the bid and the ask spread are base_spread*(1+vol), times the
\* trend multiplier (up: bid 0.8, ask 1.2; down: bid 1.2, ask 0.8; neutral:
\* none), times the inventory multiplier (bid 1+skew, ask 1-skew), clamped
\* to [min_spread, max_spread] and rounded to 4 places; hence with zero
\* skew an up trend gives bid <= ask and a down trend bid >= ask, and with
\* a neutral trend a positive skew gives bid >= ask.
C16_SpreadPipeline ==
    calc.fn = "spread" =>
        LET bidf == IF calc.trend = 1 THEN 8 ELSE IF calc.trend = -1 THEN 12 ELSE 10
            askf == IF calc.trend = 1 THEN 12 ELSE IF calc.trend = -1 THEN 8 ELSE 10
        IN  /\ SpreadFollowsPipeline(calc.bid_spread, calc.vol, bidf, 10000 + calc.skew)
            /\ SpreadFollowsPipeline(calc.ask_spread, calc.vol, askf, 10000 - calc.skew)
            /\ (calc.skew = 0 /\ calc.trend = 1) => calc.bid_spread <= calc.ask_spread
            /\ (calc.skew = 0 /\ calc.trend = -1) => calc.bid_spread >= calc.ask_spread
            /\ (calc.skew > 0 /\ calc.trend = 0) => calc.bid_spread >= calc.ask_spread

C16_Witness ==
    /\ calc.fn = "spread"
    /\ calc.vol = 6666
    /\ calc.trend = 1
    /\ calc.skew = 0
    /\ calc.bid_spread = 7
    /\ calc.ask_spread = 10

\* C17: every refresh cycle that was created eventually ends, whether its
\* cancel, buy and sell calls return or raise, and whenever a cycle is
\* outstanding the refresher eventually is idle again with none
\* outstanding, given that every collaborator call eventually returns.
C17_RefreshTerminates ==
    /\ \A i \in 1..MaxTasks :
           (Len(tasks) >= i) ~> (Len(tasks) >= i /\ tasks[i].pc = "done")
    /\ (Outstanding # {}) ~> (Outstanding = {} /\ running = 0)

C17_Witness ==
    /\ Len(tasks) = MaxTasks
    /\ tasks[1].pc = "done" /\ tasks[1].cancel = "raised" /\ tasks[1].buy = "raised"
    /\ tasks[2].pc = "done" /\ tasks[2].cancel = "ok" /\ tasks[2].sell = "raised"
    /\ running = 0

\* C18: every tick that passes the interval gate sets last_refresh to its
\* timestamp, whatever the readiness, mid-price and balance checks then
\* find; so after a tick skipped because the connector is not ready, no
\* mid price is available or the balance is insufficient, a tick less than
\* order_refresh_time later makes no collaborator call, leaves the price
\* window unchanged and starts no refresh.
C18_StampBeforeChecks ==
    [][now' # now =>
          /\ (now' - last_refresh >= order_refresh_time) =>
                 /\ last_refresh' = now'
                 /\ last_tick'.calls # <<>>
          /\ (/\ last_tick.result \in {"not_ready", "no_mid", "insufficient"}
              /\ now' - now < order_refresh_time) =>
                 /\ last_tick'.calls = <<>>
                 /\ price_data' = price_data
                 /\ tasks' = tasks
                 /\ last_refresh' = now]_vars

C18_Witness ==
    /\ last_tick.result = "interval"
    /\ tasks = <<>>
    /\ last_refresh > StartTime
    /\ now - last_refresh < order_refresh_time
    /\ \E n \in SeedNoise : price_data[WindowCap] = SeedSample(WindowCap - 1, n)

\* C19: after construction the price window holds exactly 100 samples in
\* every reachable state, so neither the test len < bb_length of
\* _calc_volatility nor the test len < slow_ma of _calc_trend ever
\* succeeds, whatever ticks are made.
C19_WindowAlwaysFull ==
    /\ Len(price_data) = WindowCap
    /\ ~(Len(price_data) < bb_length)
    /\ ~(Len(price_data) < slow_ma)

C19_Witness ==
    /\ Len(price_data) = WindowCap
    /\ price_data[WindowCap - 1] = 82000
    /\ price_data[WindowCap] = 76000
    /\ Len(tasks) = 2

\* mid.quantize(Decimal("0.01")), in cents, of a mid price of mid/scale
\* dollars
MidCents(mid, scale) ==
    LET part == 100 * (mid % scale)
    IN  RoundHalfEven(100 * (mid \div scale) + (part \div scale), part % scale, scale)

\* C20: the quotes of a refresh are never crossed: for every positive mid
\* price and every pair of spreads of the spread calculator the buy price
\* is at most the mid price rounded to cents, which is at most the sell
\* price, and the buy record of a refresh has a price no higher than its
\* sell record.
C20_QuotesNotCrossed ==
    calc.fn = "quote" =>
        /\ \A b, a \in calc.orders :
               (b.side = "buy" /\ a.side = "sell") =>
                   /\ b.price <= MidCents(calc.mid_price, calc.scale)
                   /\ MidCents(calc.mid_price, calc.scale) <= a.price
                   /\ b.price <= a.price
        /\ \E b, a \in calc.orders : b.side = "buy" /\ a.side = "sell"

\* The same on the records the refresh tasks store: the two records of
\* one cycle are not crossed.
RecordsOfACycleNotCrossed ==
    \A i \in 1..Len(tasks) : \A b, a \in active_orders :
        (b.id = tasks[i].bid_id /\ b.side = "buy" /\ a.id = tasks[i].ask_id /\ a.side = "sell")
            => b.price < a.price

C20_Witness ==
    /\ calc.fn = "quote"
    /\ calc.mid_price = 80000005 /\ calc.scale = 1000
    /\ calc.bid_spread = min_spread
    /\ \E b, a \in calc.orders :
           /\ b.side = "buy" /\ b.price = 7999200
           /\ a.side = "sell" /\ a.price > 8000000

====
